---- MODULE Spec2Model ----
(***************************************************************************)
(* Model of ntex-mqtt's v5 handshake shaping (src/v5/connect.rs: Connect   *)
(* and the ConnectAck builder) and of its error taxonomy (src/error.rs:    *)
(* the From conversions into MqttError / ProtocolError and the hand        *)
(* written PartialEq of DecodeError).                                      *)
(***************************************************************************)
EXTENDS Integers, Sequences, FiniteSets, TLC

VARIABLES
    pc,          \* position of the handshake: start, connect, building, transmitted
    given,       \* the arguments Connect::new was called with
    connect,     \* the Connect value (None once ack/failed consumed it)
    connectAck,  \* the ConnectAck value under construction (None before ack/failed)
    origin,      \* which of ack / failed produced connectAck
    lastOp,      \* the last call made on Connect / ConnectAck
    lastArg,     \* its argument
    sent,        \* the ConnectAck handed over for transmission
    conv,        \* the last error conversion: [fn, in, out]
    cmp          \* the last DecodeError comparison: [a, b, eq]

vars == <<pc, given, connect, connectAck, origin, lastOp, lastArg, sent, conv, cmp>>

hsVars == <<pc, given, connect, connectAck, origin, lastOp, lastArg, sent>>

----------------------------------------------------------------------------
(* Bounds of the model.                                                    *)

MaxConn == 2
MaxTopicAlias == 1
MaxInFlight == 1
MaxTimeout == 0
MaxSession == 1
MaxUtf8 == 2
MaxAppErr == 2

(* "By default idle keep-alive is set to 30 seconds" *)
DefaultKeepAlive == 30

----------------------------------------------------------------------------
(* Option<T>                                                               *)

None == <<>>

Some(x) == <<x>>

----------------------------------------------------------------------------
(* Input domains.                                                          *)

Conns == 1..MaxConn

TopicAliasVals == 0..MaxTopicAlias

InFlightVals == 0..MaxInFlight

TimeoutVals == (0..MaxTimeout) \cup {45}

Sessions == 1..MaxSession

(* codec::ConnectAckReason (a sample of its variants) *)
Reasons == {"Success", "NotAuthorized", "ServerUnavailable"}

----------------------------------------------------------------------------
(* Collaborators of src/v5/connect.rs.                                     *)

(* std::time::Duration::from_secs *)
Duration_from_secs(secs) == [secs |-> secs, nanos |-> 0]

(* The HandshakeResult of connection c: its framed transport, its side     *)
(* channel receiver and the live keep-alive timeout of the transport.      *)
HandshakeResult(c) ==
    [framed |-> <<"framed", c>>,
     out |-> <<"rx", c>>,
     keepalive |-> Duration_from_secs(DefaultKeepAlive)]

(* HandshakeResult::set_keepalive_timeout *)
set_keepalive_timeout(io, timeout) == [io EXCEPT !.keepalive = timeout]

(* The MqttSink of connection c *)
MqttSink(c) == <<"sink", c>>

(* codec::ConnectAck::default() *)
ConnectAck_default ==
    [session_present |-> FALSE,
     reason_code |-> "Success",
     session_expiry_interval_secs |-> None,
     receive_max |-> None,
     max_qos |-> None,
     topic_alias_max |-> 0,
     server_keepalive_sec |-> None]

----------------------------------------------------------------------------
(* src/v5/connect.rs                                                       *)

Connect_new(cn, io, sink, max_topic_alias, inflight) ==
    [connect |-> cn, io |-> io, sink |-> sink, inflight |-> inflight,
     max_topic_alias |-> max_topic_alias]

(* Connect::ack building a sink of its own instead of moving self.sink *)
Connect_ack_FreshSink(self, st) ==
    LET packet == [ConnectAck_default EXCEPT
                       !.reason_code = "Success",
                       !.topic_alias_max = self.max_topic_alias]
    IN  [io |-> self.io,
         sink |-> MqttSink(0),
         inflight |-> self.inflight,
         session |-> Some(st),
         packet |-> packet]

(* Connect::ack dropping the session data *)
Connect_ack_NoSession(self, st) ==
    LET packet == [ConnectAck_default EXCEPT
                       !.reason_code = "Success",
                       !.topic_alias_max = self.max_topic_alias]
    IN  [io |-> self.io,
         sink |-> self.sink,
         inflight |-> self.inflight,
         session |-> None,
         packet |-> packet]

Connect_ack(self, st) ==
    LET packet == [ConnectAck_default EXCEPT
                       !.reason_code = "Success",
                       !.topic_alias_max = self.max_topic_alias]
    IN  [io |-> self.io,
         sink |-> self.sink,
         inflight |-> self.inflight,
         session |-> Some(st),
         packet |-> packet]

(* Connect::failed forgetting the negotiated topic-alias maximum *)
Connect_failed_NoTopicAlias(self, reason) ==
    LET packet == [ConnectAck_default EXCEPT !.reason_code = reason]
    IN  [io |-> self.io,
         sink |-> self.sink,
         session |-> None,
         inflight |-> self.inflight,
         packet |-> packet]

Connect_failed(self, reason) ==
    LET packet == [ConnectAck_default EXCEPT
                       !.reason_code = reason,
                       !.topic_alias_max = self.max_topic_alias]
    IN  [io |-> self.io,
         sink |-> self.sink,
         session |-> None,
         inflight |-> self.inflight,
         packet |-> packet]

ConnectAck_keep_alive(self, timeout) ==
    [self EXCEPT
        !.packet.session_expiry_interval_secs = Some(timeout),
        !.io = set_keepalive_timeout(self.io, Duration_from_secs(timeout))]

(* A closure passed to `with`: it assigns one field of the packet.         *)
Closures ==
    [field : {"reason_code"}, value : Reasons]
    \cup [field : {"topic_alias_max"}, value : TopicAliasVals]
    \cup [field : {"session_expiry_interval_secs"},
          value : {None} \cup {Some(t) : t \in TimeoutVals}]
    \cup [field : {"server_keepalive_sec"}, value : {None, Some(45)}]

Call(f, packet) == [packet EXCEPT ![f.field] = f.value]

ConnectAck_with(self, f) == [self EXCEPT !.packet = Call(f, self.packet)]

(* in_flight also advertising the capacity as the packet's receive maximum *)
ConnectAck_in_flight_ReceiveMax(self, in_flight) ==
    [self EXCEPT !.inflight = in_flight, !.packet.receive_max = Some(in_flight)]

ConnectAck_in_flight(self, in_flight) == [self EXCEPT !.inflight = in_flight]

----------------------------------------------------------------------------
(* The handshake: the server builds a Connect, the handshake collaborator  *)
(* turns it into a ConnectAck with ack or failed, adjusts it with the      *)
(* builder calls and returns it, and the server transmits it.              *)

New(c, m, n) ==
    /\ pc = "start"
    /\ connect' = Some(Connect_new(<<"connect", c>>, HandshakeResult(c), MqttSink(c), m, n))
    /\ given' = Some([io |-> HandshakeResult(c), sink |-> MqttSink(c),
                      max_topic_alias |-> m, inflight |-> n])
    /\ pc' = "connect"
    /\ lastOp' = "new"
    /\ lastArg' = None
    /\ UNCHANGED <<connectAck, origin, sent, conv, cmp>>

Ack(st) ==
    /\ pc = "connect"
    /\ connectAck' = Some(Connect_ack(connect[1], st))
    /\ connect' = None
    /\ origin' = "ack"
    /\ pc' = "building"
    /\ lastOp' = "ack"
    /\ lastArg' = Some(st)
    /\ UNCHANGED <<given, sent, conv, cmp>>

Failed(reason) ==
    /\ pc = "connect"
    /\ connectAck' = Some(Connect_failed(connect[1], reason))
    /\ connect' = None
    /\ origin' = "failed"
    /\ pc' = "building"
    /\ lastOp' = "failed"
    /\ lastArg' = Some(reason)
    /\ UNCHANGED <<given, sent, conv, cmp>>

(* keep_alive callable through a handle kept after the hand-over *)
KeepAlive_AfterHandOver(timeout) ==
    /\ pc \in {"building", "transmitted"}
    /\ connectAck' = Some(ConnectAck_keep_alive(connectAck[1], timeout))
    /\ lastOp' = "keep_alive"
    /\ lastArg' = Some(timeout)
    /\ UNCHANGED <<pc, given, connect, origin, sent, conv, cmp>>

(* `keep_alive(mut self, ..) -> Self` takes the ConnectAck by value: only   *)
(* the holder of the value can call it, and it gets the value back.        *)
KeepAlive(timeout) ==
    /\ pc = "building"
    /\ connectAck' = Some(ConnectAck_keep_alive(connectAck[1], timeout))
    /\ lastOp' = "keep_alive"
    /\ lastArg' = Some(timeout)
    /\ UNCHANGED <<pc, given, connect, origin, sent, conv, cmp>>

With(f) ==
    /\ pc = "building"
    /\ connectAck' = Some(ConnectAck_with(connectAck[1], f))
    /\ lastOp' = "with"
    /\ lastArg' = Some(f)
    /\ UNCHANGED <<pc, given, connect, origin, sent, conv, cmp>>

InFlight(n) ==
    /\ pc = "building"
    /\ connectAck' = Some(ConnectAck_in_flight(connectAck[1], n))
    /\ lastOp' = "in_flight"
    /\ lastArg' = Some(n)
    /\ UNCHANGED <<pc, given, connect, origin, sent, conv, cmp>>

(* The collaborator returns the ConnectAck; the server takes it over and   *)
(* writes its packet to the transport.                                     *)
Transmit ==
    /\ pc = "building"
    /\ sent' = Some(connectAck[1].packet)
    /\ pc' = "transmitted"
    /\ lastOp' = "transmit"
    /\ lastArg' = None
    /\ UNCHANGED <<given, connect, connectAck, origin, conv, cmp>>

NoConv == [fn |-> "none", in |-> None, out |-> None]

NoCmp == [a |-> None, b |-> None, eq |-> FALSE]

Init ==
    /\ pc = "start"
    /\ given = None
    /\ connect = None
    /\ connectAck = None
    /\ origin = "none"
    /\ lastOp = "none"
    /\ lastArg = None
    /\ sent = None
    /\ conv = NoConv
    /\ cmp = NoCmp

Next ==
    \/ \E c \in Conns, m \in TopicAliasVals, n \in InFlightVals : New(c, m, n)
    \/ \E st \in Sessions : Ack(st)
    \/ \E reason \in Reasons : Failed(reason)
    \/ \E timeout \in TimeoutVals : KeepAlive(timeout)
    \/ \E f \in Closures : With(f)
    \/ \E n \in InFlightVals : InFlight(n)
    \/ Transmit

Spec == Init /\ [][Next]_vars

----------------------------------------------------------------------------
(* src/error.rs: the error values.  An enum value is a tuple of its        *)
(* variant name and its payload; MqttError and ProtocolError values also   *)
(* carry the name of their type.                                           *)

DecodeErrorUnits ==
    {"InvalidProtocol", "InvalidLength", "MalformedPacket",
     "UnsupportedProtocolLevel", "ConnectReservedFlagSet",
     "ConnAckReservedFlagSet", "InvalidClientId", "UnsupportedPacketType",
     "PacketIdRequired", "MaxSizeExceeded"}

(* Utf8Error(u): u stands for the content of the std::str::Utf8Error *)
DecodeError ==
    {<<v>> : v \in DecodeErrorUnits} \cup {<<"Utf8Error", u>> : u \in 1..MaxUtf8}

EncodeError ==
    {<<v>> : v \in {"InvalidLength", "MalformedPacket", "PacketIdRequired",
                    "UnsupportedVersion"}}

(* std::io::Error (a sample of its kinds) *)
IoError == {<<"io", k>> : k \in {"BrokenPipe", "UnexpectedEof"}}

(* The application's own error type E *)
AppError == {<<"app", i>> : i \in 1..MaxAppErr}

(* framed::DispatcherError<Codec>, as the match arms of error.rs take it apart *)
DispatcherError ==
    {<<"KeepAlive">>}
    \cup {<<"Encoder", e>> : e \in EncodeError}
    \cup {<<"Decoder", e>> : e \in DecodeError}
    \cup {<<"Io", e>> : e \in IoError}

ProtocolErrorUnits ==
    {"PublishReadyError", "PacketIdRequired", "DuplicatedPacketId",
     "PacketIdMismatch", "MaxTopicAlias", "UnknownTopicAlias",
     "KeepAliveTimeout", "HandshakeTimeout", "Disconnected"}

MkProtocolError(v) == [ty |-> "ProtocolError", v |-> v]

MkMqttError(v) == [ty |-> "MqttError", v |-> v]

ProtocolError ==
    {MkProtocolError(<<v>>) : v \in ProtocolErrorUnits}
    \cup {MkProtocolError(<<"Decode", e>>) : e \in DecodeError}
    \cup {MkProtocolError(<<"Encode", e>>) : e \in EncodeError}
    \cup {MkProtocolError(<<"Unexpected", 1, "packet">>)}
    \cup {MkProtocolError(<<"Io", e>>) : e \in IoError}

Left(x) == <<"Left", x>>

Right(x) == <<"Right", x>>

----------------------------------------------------------------------------
(* src/error.rs: the conversions.                                          *)

(* a conversion that reports every failure as the handler's *)
MqttError_from_Either_AllService(err) == MkMqttError(<<"Service", err[2]>>)

MqttError_from_Either(err) ==
    CASE err[1] = "Left" -> MkMqttError(<<"Service", err[2]>>)
      [] err[1] = "Right" -> MkMqttError(<<"Protocol", err[2]>>)

MqttError_from_DecodeError(err) == MkMqttError(<<"Decode", err>>)

MqttError_from_EitherDecodeIo(err) ==
    CASE err[1] = "Left" -> MkMqttError(<<"Decode", err[2]>>)
      [] err[1] = "Right" -> MkMqttError(<<"Io", err[2]>>)

MqttError_from_EitherEncodeIo(err) ==
    CASE err[1] = "Left" -> MkMqttError(<<"Encode", err[2]>>)
      [] err[1] = "Right" -> MkMqttError(<<"Io", err[2]>>)

MqttError_from_EncodeError(err) == MkMqttError(<<"Encode", err>>)

MqttError_from_IoError(err) == MkMqttError(<<"Io", err>>)

MqttError_from_DispatcherError_v3(err) ==
    CASE err[1] = "KeepAlive" -> MkMqttError(<<"KeepAliveTimeout">>)
      [] err[1] = "Encoder" -> MkMqttError(<<"Encode", err[2]>>)
      [] err[1] = "Decoder" -> MkMqttError(<<"Decode", err[2]>>)
      [] err[1] = "Io" -> MkMqttError(<<"Io", err[2]>>)

MqttError_from_DispatcherError_v5(err) ==
    CASE err[1] = "KeepAlive" -> MkMqttError(<<"KeepAliveTimeout">>)
      [] err[1] = "Encoder" -> MkMqttError(<<"Encode", err[2]>>)
      [] err[1] = "Decoder" -> MkMqttError(<<"Decode", err[2]>>)
      [] err[1] = "Io" -> MkMqttError(<<"Io", err[2]>>)

ProtocolError_from_DispatcherError_v3(err) ==
    CASE err[1] = "KeepAlive" -> MkProtocolError(<<"KeepAliveTimeout">>)
      [] err[1] = "Encoder" -> MkProtocolError(<<"Encode", err[2]>>)
      [] err[1] = "Decoder" -> MkProtocolError(<<"Decode", err[2]>>)
      [] err[1] = "Io" -> MkProtocolError(<<"Io", err[2]>>)

(* the v5 arm for a keep-alive firing reporting a peer disconnect *)
ProtocolError_from_DispatcherError_v5_Disconnected(err) ==
    CASE err[1] = "KeepAlive" -> MkProtocolError(<<"Disconnected">>)
      [] err[1] = "Encoder" -> MkProtocolError(<<"Encode", err[2]>>)
      [] err[1] = "Decoder" -> MkProtocolError(<<"Decode", err[2]>>)
      [] err[1] = "Io" -> MkProtocolError(<<"Io", err[2]>>)

ProtocolError_from_DispatcherError_v5(err) ==
    CASE err[1] = "KeepAlive" -> MkProtocolError(<<"KeepAliveTimeout">>)
      [] err[1] = "Encoder" -> MkProtocolError(<<"Encode", err[2]>>)
      [] err[1] = "Decoder" -> MkProtocolError(<<"Decode", err[2]>>)
      [] err[1] = "Io" -> MkProtocolError(<<"Io", err[2]>>)

(* derived structural equality in place of the hand-written match *)
DecodeError_eq_Structural(self, other) == self = other

(* impl PartialEq for DecodeError *)
DecodeError_eq(self, other) ==
    CASE self[1] = "InvalidProtocol" /\ other[1] = "InvalidProtocol" -> TRUE
      [] self[1] = "InvalidLength" /\ other[1] = "InvalidLength" -> TRUE
      [] self[1] = "UnsupportedProtocolLevel" /\ other[1] = "UnsupportedProtocolLevel" -> TRUE
      [] self[1] = "ConnectReservedFlagSet" /\ other[1] = "ConnectReservedFlagSet" -> TRUE
      [] self[1] = "ConnAckReservedFlagSet" /\ other[1] = "ConnAckReservedFlagSet" -> TRUE
      [] self[1] = "InvalidClientId" /\ other[1] = "InvalidClientId" -> TRUE
      [] self[1] = "UnsupportedPacketType" /\ other[1] = "UnsupportedPacketType" -> TRUE
      [] self[1] = "PacketIdRequired" /\ other[1] = "PacketIdRequired" -> TRUE
      [] self[1] = "MaxSizeExceeded" /\ other[1] = "MaxSizeExceeded" -> TRUE
      [] self[1] = "MalformedPacket" /\ other[1] = "MalformedPacket" -> TRUE
      [] self[1] = "Utf8Error" -> FALSE
      [] OTHER -> FALSE

----------------------------------------------------------------------------
(* One action per From impl: the conversion is applied to an error.        *)

FromEither(err) ==
    /\ conv' = [fn |-> "MqttError_from_Either", in |-> err, out |-> MqttError_from_Either(err)]
    /\ UNCHANGED <<hsVars, cmp>>

FromDecodeError(err) ==
    /\ conv' = [fn |-> "MqttError_from_DecodeError", in |-> err, out |-> MqttError_from_DecodeError(err)]
    /\ UNCHANGED <<hsVars, cmp>>

FromEitherDecodeIo(err) ==
    /\ conv' = [fn |-> "MqttError_from_EitherDecodeIo", in |-> err, out |-> MqttError_from_EitherDecodeIo(err)]
    /\ UNCHANGED <<hsVars, cmp>>

FromEitherEncodeIo(err) ==
    /\ conv' = [fn |-> "MqttError_from_EitherEncodeIo", in |-> err, out |-> MqttError_from_EitherEncodeIo(err)]
    /\ UNCHANGED <<hsVars, cmp>>

FromEncodeError(err) ==
    /\ conv' = [fn |-> "MqttError_from_EncodeError", in |-> err, out |-> MqttError_from_EncodeError(err)]
    /\ UNCHANGED <<hsVars, cmp>>

FromIoError(err) ==
    /\ conv' = [fn |-> "MqttError_from_IoError", in |-> err, out |-> MqttError_from_IoError(err)]
    /\ UNCHANGED <<hsVars, cmp>>

FromDispatcherV3(err) ==
    /\ conv' = [fn |-> "MqttError_from_DispatcherError_v3", in |-> err, out |-> MqttError_from_DispatcherError_v3(err)]
    /\ UNCHANGED <<hsVars, cmp>>

FromDispatcherV5(err) ==
    /\ conv' = [fn |-> "MqttError_from_DispatcherError_v5", in |-> err, out |-> MqttError_from_DispatcherError_v5(err)]
    /\ UNCHANGED <<hsVars, cmp>>

ProtocolFromDispatcherV3(err) ==
    /\ conv' = [fn |-> "ProtocolError_from_DispatcherError_v3", in |-> err, out |-> ProtocolError_from_DispatcherError_v3(err)]
    /\ UNCHANGED <<hsVars, cmp>>

ProtocolFromDispatcherV5(err) ==
    /\ conv' = [fn |-> "ProtocolError_from_DispatcherError_v5", in |-> err, out |-> ProtocolError_from_DispatcherError_v5(err)]
    /\ UNCHANGED <<hsVars, cmp>>

NextErr ==
    \/ \E err \in {Left(e) : e \in AppError} \cup {Right(e) : e \in ProtocolError} :
           FromEither(err)
    \/ \E err \in DecodeError : FromDecodeError(err)
    \/ \E err \in {Left(e) : e \in DecodeError} \cup {Right(e) : e \in IoError} :
           FromEitherDecodeIo(err)
    \/ \E err \in {Left(e) : e \in EncodeError} \cup {Right(e) : e \in IoError} :
           FromEitherEncodeIo(err)
    \/ \E err \in EncodeError : FromEncodeError(err)
    \/ \E err \in IoError : FromIoError(err)
    \/ \E err \in DispatcherError : FromDispatcherV3(err)
    \/ \E err \in DispatcherError : FromDispatcherV5(err)
    \/ \E err \in DispatcherError : ProtocolFromDispatcherV3(err)
    \/ \E err \in DispatcherError : ProtocolFromDispatcherV5(err)

SpecErr == Init /\ [][NextErr]_vars

(* DecodeError::eq is applied to a pair of decode errors.                  *)
Compare(a, b) ==
    /\ cmp' = [a |-> Some(a), b |-> Some(b), eq |-> DecodeError_eq(a, b)]
    /\ UNCHANGED <<hsVars, conv>>

NextEq == \E a \in DecodeError, b \in DecodeError : Compare(a, b)

SpecEq == Init /\ [][NextEq]_vars

----------------------------------------------------------------------------
(* Properties of the handshake.                                            *)

Built == pc \in {"building", "transmitted"}

(* C1: after ack(session_data) followed by keep_alive(t), the keep-alive    *)
(* field of the ConnectAck packet (MQTT 5 Server Keep Alive) is t and the   *)
(* live keep-alive timeout of the transport is t seconds.                  *)
C1_KeepAliveSetsPacketAndTimer ==
    (origin = "ack" /\ lastOp = "keep_alive") =>
        /\ connectAck[1].packet.server_keepalive_sec = lastArg
        /\ connectAck[1].io.keepalive.secs = lastArg[1]
        /\ connectAck[1].io.keepalive.nanos = 0

(* C2: whenever the outbound ConnectAck packet carries a keep-alive        *)
(* override, it equals the live keep-alive timeout of the transport.       *)
C2_PacketKeepAliveEqualsTimer ==
    (Built /\ connectAck[1].packet.server_keepalive_sec # None) =>
        connectAck[1].io.keepalive =
            Duration_from_secs(connectAck[1].packet.server_keepalive_sec[1])

(* C3: the ConnectAck returned by ack or failed carries the topic-alias    *)
(* maximum and the in-flight capacity the Connect was created with.        *)
C3_NegotiatedValuesPopulated ==
    (lastOp \in {"ack", "failed"}) =>
        /\ connectAck[1].packet.topic_alias_max = given[1].max_topic_alias
        /\ connectAck[1].inflight = given[1].inflight

C3_Witness ==
    /\ lastOp = "failed"
    /\ given[1].max_topic_alias = MaxTopicAlias
    /\ given[1].inflight = MaxInFlight
    /\ connectAck[1].packet.topic_alias_max = MaxTopicAlias

(* C6: the sink, the transport and the side channel given to Connect::new  *)
(* are the ones the ConnectAck holds, after ack / failed and after every   *)
(* builder call.                                                           *)
C6_SinkAndChannelThreaded ==
    Built =>
        /\ connectAck[1].sink = given[1].sink
        /\ connectAck[1].io.framed = given[1].io.framed
        /\ connectAck[1].io.out = given[1].io.out

C6_Witness ==
    /\ pc = "building"
    /\ lastOp = "keep_alive"
    /\ connectAck[1].io.keepalive # given[1].io.keepalive
    /\ connectAck[1].sink = MqttSink(MaxConn)

OtherPacketFields ==
    DOMAIN ConnectAck_default \ {"reason_code", "topic_alias_max"}

(* C9: ack(st) yields reason code Success and session data st, failed(r)   *)
(* yields reason code r and no session data; in both, every packet field   *)
(* other than the reason code and the topic-alias maximum is the default.  *)
C9_AckOrFailedOutcome ==
    /\ lastOp = "ack" =>
          /\ connectAck[1].packet.reason_code = "Success"
          /\ connectAck[1].session = lastArg
    /\ lastOp = "failed" =>
          /\ connectAck[1].packet.reason_code = lastArg[1]
          /\ connectAck[1].session = None
    /\ lastOp \in {"ack", "failed"} =>
          \A k \in OtherPacketFields :
              connectAck[1].packet[k] = ConnectAck_default[k]

C9_Witness ==
    /\ lastOp = "failed"
    /\ lastArg = Some("NotAuthorized")
    /\ connectAck[1].packet.reason_code = "NotAuthorized"
    /\ connectAck[1].session = None

C10_Frame ==
    /\ lastOp' = "in_flight" =>
          /\ connectAck'[1].inflight = lastArg'[1]
          /\ connectAck'[1].packet = connectAck[1].packet
          /\ connectAck'[1].io = connectAck[1].io
          /\ connectAck'[1].session = connectAck[1].session
    /\ lastOp' = "with" =>
          /\ connectAck'[1].inflight = connectAck[1].inflight
          /\ connectAck'[1].io = connectAck[1].io
          /\ connectAck'[1].session = connectAck[1].session
          /\ connectAck'[1].sink = connectAck[1].sink
    /\ lastOp' = "keep_alive" =>
          /\ connectAck'[1].inflight = connectAck[1].inflight
          /\ connectAck'[1].session = connectAck[1].session

(* C10: in_flight(n) sets the capacity to n and leaves the packet, the     *)
(* timer and the session data alone; with(f) changes only the packet;      *)
(* keep_alive changes neither the capacity nor the session data; and the   *)
(* ConnectAck carries session data exactly when ack produced it.           *)
C10_BuilderFrames ==
    /\ [][C10_Frame]_vars
    /\ [](Built => (connectAck[1].session # None <=> origin = "ack"))

C10_Witness ==
    /\ lastOp = "in_flight"
    /\ origin = "ack"
    /\ connectAck[1].inflight # given[1].inflight
    /\ connectAck[1].packet.session_expiry_interval_secs # None
    /\ connectAck[1].packet.topic_alias_max # given[1].max_topic_alias

----------------------------------------------------------------------------
(* Properties of the error model.                                          *)

DispatcherFns ==
    {"MqttError_from_DispatcherError_v3", "MqttError_from_DispatcherError_v5",
     "ProtocolError_from_DispatcherError_v3", "ProtocolError_from_DispatcherError_v5"}

(* The lower-level failure a conversion's input carries: its kind and the  *)
(* decode, encode or I/O error itself.                                     *)
Failure(fn, in) ==
    CASE fn \in DispatcherFns /\ in[1] = "KeepAlive" -> <<"keepalive">>
      [] fn \in DispatcherFns /\ in[1] = "Encoder" -> <<"encode", in[2]>>
      [] fn \in DispatcherFns /\ in[1] = "Decoder" -> <<"decode", in[2]>>
      [] fn \in DispatcherFns /\ in[1] = "Io" -> <<"io", in[2]>>
      [] fn = "MqttError_from_DecodeError" -> <<"decode", in>>
      [] fn = "MqttError_from_EncodeError" -> <<"encode", in>>
      [] fn = "MqttError_from_IoError" -> <<"io", in>>
      [] fn = "MqttError_from_EitherDecodeIo" /\ in[1] = "Left" -> <<"decode", in[2]>>
      [] fn = "MqttError_from_EitherEncodeIo" /\ in[1] = "Left" -> <<"encode", in[2]>>
      [] fn \in {"MqttError_from_EitherDecodeIo", "MqttError_from_EitherEncodeIo"}
             /\ in[1] = "Right" -> <<"io", in[2]>>
      [] OTHER -> <<"other">>

(* C4: a keep-alive firing becomes KeepAliveTimeout, an encoder failure    *)
(* Encode with the same EncodeError, a decoder failure Decode with the     *)
(* same DecodeError, and only an I/O error becomes Io; the four dispatcher *)
(* conversions (MqttError / ProtocolError, v3 / v5) agree on the variant   *)
(* and its payload.                                                        *)
C4_ConversionsPreserveKind ==
    LET f == Failure(conv.fn, conv.in)
    IN  /\ f[1] = "keepalive" => conv.out.v = <<"KeepAliveTimeout">>
        /\ f[1] = "encode" => conv.out.v = <<"Encode", f[2]>>
        /\ f[1] = "decode" => conv.out.v = <<"Decode", f[2]>>
        /\ f[1] = "io" => conv.out.v = <<"Io", f[2]>>
        /\ (conv.fn # "none" /\ conv.out.v[1] = "Io") => f[1] = "io"
        /\ conv.fn \in DispatcherFns =>
              /\ MqttError_from_DispatcherError_v3(conv.in).v = conv.out.v
              /\ MqttError_from_DispatcherError_v5(conv.in).v = conv.out.v
              /\ ProtocolError_from_DispatcherError_v3(conv.in).v = conv.out.v
              /\ ProtocolError_from_DispatcherError_v5(conv.in).v = conv.out.v
              /\ conv.out.ty = (IF conv.fn \in {"MqttError_from_DispatcherError_v3",
                                                "MqttError_from_DispatcherError_v5"}
                                THEN "MqttError" ELSE "ProtocolError")

C4_Witness ==
    /\ conv.fn = "ProtocolError_from_DispatcherError_v5"
    /\ conv.in = <<"Decoder", <<"Utf8Error", 1>>>>
    /\ conv.out = MkProtocolError(<<"Decode", <<"Utf8Error", 1>>>>)

(* C5: Either::Left(e) converts to Service(e), Either::Right(p) to         *)
(* Protocol(p), and no conversion of a protocol, decode, encode, dispatch  *)
(* or I/O error yields Service.                                            *)
C5_ServiceOnlyFromHandler ==
    /\ (conv.fn = "MqttError_from_Either" /\ conv.in[1] = "Left") =>
           conv.out = MkMqttError(<<"Service", conv.in[2]>>)
    /\ (conv.fn = "MqttError_from_Either" /\ conv.in[1] = "Right") =>
           conv.out = MkMqttError(<<"Protocol", conv.in[2]>>)
    /\ (conv.fn # "none" /\ conv.out.v[1] = "Service") =>
           (conv.fn = "MqttError_from_Either" /\ conv.in[1] = "Left")

C5_Witness ==
    /\ conv.fn = "MqttError_from_Either"
    /\ conv.in = Left(<<"app", MaxAppErr>>)
    /\ conv.out.v = <<"Service", <<"app", MaxAppErr>>>>

(* C8: a == b exactly when a and b are the same variant other than         *)
(* Utf8Error; equality is symmetric.                                       *)
C8_DecodeErrorEquality ==
    cmp.a # None =>
        /\ cmp.eq <=> (cmp.a[1][1] = cmp.b[1][1] /\ cmp.a[1][1] # "Utf8Error")
        /\ cmp.eq = DecodeError_eq(cmp.b[1], cmp.a[1])

C8_Witness ==
    /\ cmp.a = Some(<<"Utf8Error", 1>>)
    /\ cmp.b = cmp.a
    /\ cmp.eq = FALSE

====
